---- MODULE Spec2Model ----
(***************************************************************************)
(* Metering-application intake, its administrative life cycle and the      *)
(* solar calculator, as implemented by src/app.py (Flask handlers over one *)
(* SQL table and an upload folder).                                        *)
(*                                                                         *)
(* The state is the metering_application table, the upload folder and the  *)
(* date of the clock.  Every handler is one action: a request is handled   *)
(* within one database transaction.  A request that is refused leaves the  *)
(* table as it is.  SpecConcurrent splits the admin update into the two    *)
(* steps that concurrent requests interleave, and SpecCart does the same   *)
(* for add_to_cart over the cart table; SpecEstimator applies the          *)
(* calculator to the requests its initial states draw.                     *)
(*                                                                         *)
(* Python values are modelled as follows.                                  *)
(*   None                 the string NONE                                  *)
(*   float                a record [kind, v]: kind "num" with the value v, *)
(*                        or kind "nan", "inf", "-inf"; the raw form field *)
(*                        may also be absent (kind "missing")              *)
(*   datetime             the date, a natural number                       *)
(*   reference string     the triple <<prefix, date, random number>>       *)
(*   documents (JSON)     a function from document kind to stored path     *)
(*   stored file          its path <<"uploads", field>>                    *)
(***************************************************************************)
EXTENDS Integers, Sequences, FiniteSets, TLC

VARIABLES
    apps,     \* the metering_application table: a sequence, row id = index
    now,      \* the date of the clock read by datetime.now() / utcnow()
    hist,     \* history: per row, what was submitted and what the admin posted last
    uploads,  \* the files of the upload folder: the set of stored paths
    inflight, \* per worker: the admin update it has loaded and not yet committed
    quote,    \* the request to the solar calculator and the recommendation it got
    cart,     \* the cart table: a sequence, row id = index
    adding,   \* per worker: the add_to_cart request it has read the cart for
    added     \* history: the add_to_cart requests committed, in commit order

shop == <<cart, adding, added>>
vars == <<apps, now, hist, uploads, inflight, quote, cart, adding, added>>

-----------------------------------------------------------------------------
(* Bounds of the model *)

MaxApps == 2
MaxDay == 1
MaxAdds == 3

-----------------------------------------------------------------------------
(* Values *)

NONE == "<None>"

Num(x) == [kind |-> "num", v |-> x]
NaN == [kind |-> "nan", v |-> 0]
PosInf == [kind |-> "inf", v |-> 0]
NegInf == [kind |-> "-inf", v |-> 0]
Missing == [kind |-> "missing", v |-> 0]

\* float comparisons: every comparison with NaN is false
FloatLt(a, n) == (a.kind = "num" /\ a.v < n) \/ a.kind = "-inf"
FloatGt(a, n) == (a.kind = "num" /\ a.v > n) \/ a.kind = "inf"

\* bool(x) of a float: only 0.0 is falsy (NaN and the infinities are truthy)
FloatTruthy(a) == a.kind \in {"nan", "inf", "-inf"} \/ a.v # 0

\* bool(x) of a str or None
StrTruthy(s) == s # NONE /\ s # ""

\* str.strip()
Strip(s) == IF s = " " THEN "" ELSE s

\* int(x / d) of a finite float: truncation toward zero
Truncate(x, d) == IF x >= 0 THEN x \div d ELSE 0 - ((0 - x) \div d)

\* round(n / d, ndigits) when n / d is counted in units of the last digit kept:
\* the nearest integer, the even one at a tie (0 <= n, 0 < d)
Round(n, d) ==
    LET q == n \div d
        r == n % d
    IN  IF 2 * r > d \/ (2 * r = d /\ q % 2 = 1) THEN q + 1 ELSE q

Min(S) == CHOOSE x \in S : \A y \in S : x <= y
Max(a, b) == IF a >= b THEN a ELSE b

-----------------------------------------------------------------------------
(* Users and sessions *)

NoUser == "anonymous"
Users == {"client", "admin"}
Sessions == {NoUser} \cup Users

user_type(u) == IF u = "admin" THEN "admin" ELSE "client"

-----------------------------------------------------------------------------
(* The MeteringApplication model *)

BaseDocs == {"electricity_bill", "cnic_front", "cnic_back"}
DocKinds == BaseDocs \cup {"land_ownership", "noc_document"}

StatusValues == {"pending", "under_review", "approved", "rejected", "completed"}

RandMin == 1000
RandMax == 9999

RandomNumbers == {RandMin, RandMax}

\* a prefix table whose default is the net prefix
generate_reference_DefaultNet(application_type, date, random_num) ==
    LET prefix == IF application_type = "gross" THEN "GROSS"
                  ELSE IF application_type = "simple_solar" THEN "SOL"
                  ELSE "NET"
    IN <<prefix, date, random_num>>

generate_reference(application_type, date, random_num) ==
    LET prefix == IF application_type = "net" THEN "NET"
                  ELSE IF application_type = "gross" THEN "GROSS"
                  ELSE IF application_type = "simple_solar" THEN "SOL"
                  ELSE "APP"
    IN <<prefix, date, random_num>>

\* path recorded for an uploaded file of a document field
UploadPath(field) == <<"uploads", field>>

\* uploaded_docs: the files of the request among the fields the handler reads
UploadedDocs(files, doc_fields) == [f \in files \cap doc_fields |-> UploadPath(f)]

\* the place of a field in doc_fields, the order in which the upload loop saves
Position(field) ==
    IF field = "electricity_bill" THEN 1
    ELSE IF field = "cnic_front" THEN 2
    ELSE IF field = "cnic_back" THEN 3
    ELSE 4

\* the paths file.save() has written when the loop ends: every file of the request
\* among doc_fields, or, when the save of the field `failing` raises, the files
\* before it
SavedFiles(files, doc_fields, failing) ==
    LET present == files \cap doc_fields
    IN  {UploadPath(f) : f \in {g \in present :
            failing \notin present \/ Position(g) < Position(failing)}}

NewApplication(user, atype, capacity, units, ptype, address, ownership, docs, noc, ref) ==
    [ user_id |-> user,
      application_type |-> atype,
      system_capacity |-> capacity,
      consumption_units |-> units,
      property_type |-> ptype,
      property_address |-> address,
      ownership_type |-> ownership,
      reference_number |-> ref,
      status |-> "pending",
      submitted_at |-> now,
      updated_at |-> now,
      documents |-> docs,
      noc_message |-> noc,
      admin_notes |-> NONE,
      estimated_cost |-> capacity.v * 80000 ]

\* a table without the UNIQUE constraint on reference_number
CommitAccepts_NoUnique(table, row) == row.system_capacity.kind = "num"

\* db.session.commit() of a new row: the NOT NULL and UNIQUE constraints of the
\* table; SQLite binds a NaN float as NULL
CommitAccepts(table, row) ==
    /\ row.system_capacity.kind = "num"
    /\ \A i \in DOMAIN table : table[i].reference_number # row.reference_number

-----------------------------------------------------------------------------
(* get_solar_recommendation.  Amounts are integers: money in PKR, energy in    *)
(* kWh, monthly_consumption and carbon_offset in hundredths, payback_period in *)
(* tenths of a year, the two efficiency factors in tenths.                     *)

electricity_rate == 25
peak_sun_hours == 55
system_loss_factor == 8
cost_per_kw == 80000
standard_capacities == <<1, 2, 3, 5, 7, 10, 15, 20, 25, 30, 40, 50>>

\* c >= required_capacity, where
\* required_capacity = monthly_bill / electricity_rate / 30 / (5.5 * 0.8)
AtLeastRequired(c, monthly_bill) ==
    IF monthly_bill.kind = "num"
    THEN c * electricity_rate * 30 * peak_sun_hours * system_loss_factor
             >= monthly_bill.v * 100
    ELSE monthly_bill.kind = "-inf"

\* the standard capacity nearest to the required one
LadderCapacity_Nearest(monthly_bill) ==
    LET scale == electricity_rate * 30 * peak_sun_hours * system_loss_factor
        Distance(c) == IF c * scale >= monthly_bill.v * 100
                       THEN c * scale - monthly_bill.v * 100
                       ELSE monthly_bill.v * 100 - c * scale
        sizes == {standard_capacities[k] : k \in DOMAIN standard_capacities}
    IN  IF monthly_bill.kind = "num"
        THEN Min({c \in sizes : \A d \in sizes : Distance(c) <= Distance(d)})
        ELSE IF monthly_bill.kind = "-inf" THEN 1 ELSE 50

\* min([c for c in standard_capacities if c >= required_capacity], default=50)
LadderCapacity(monthly_bill) ==
    LET fit == {standard_capacities[k] : k \in
                   {j \in DOMAIN standard_capacities :
                       AtLeastRequired(standard_capacities[j], monthly_bill)}}
    IN  IF fit = {} THEN 50 ELSE Min(fit)

\* a roof capacity without the floor of 1 kW
RoofCapacity_NoFloor(roof_area) == Truncate(roof_area.v, 100)

\* a roof capacity rounded down to a standard capacity
RoofCapacity_Ladder(roof_area) ==
    LET below == {standard_capacities[k] : k \in
                     {j \in DOMAIN standard_capacities :
                         standard_capacities[j] * 100 <= roof_area.v}}
    IN  IF below = {} THEN 1
        ELSE CHOOSE c \in below : \A d \in below : d <= c

\* max(1, int(roof_area / 100)) of a finite roof_area
RoofCapacity(roof_area) == Max(1, Truncate(roof_area.v, 100))

\* required_area = recommended_capacity * 100, computed before the roof check
RequiredArea(capacity) == capacity * 100

\* a payback that compares the savings with the cost
PaybackYears_CostGuard(total_cost, annual_savings) ==
    IF annual_savings > total_cost THEN Round(total_cost * 10, annual_savings) ELSE 0

\* round(total_cost / annual_savings if annual_savings > 0 else 0, 1)
PaybackYears(total_cost, annual_savings) ==
    IF annual_savings > 0 THEN Round(total_cost * 10, annual_savings) ELSE 0

\* eligibility above 5 kW, as the comment of the source words it
NetMeteringEligible_Above(recommended_capacity) == recommended_capacity > 5

\* net_metering_eligible = recommended_capacity >= 5
NetMeteringEligible(recommended_capacity) == recommended_capacity >= 5

\* the dictionary the function returns, or the exception it raises
Recommendation(raised, recommended_capacity, monthly_consumption, required_area) ==
    LET total_cost == recommended_capacity * cost_per_kw
        monthly_generation ==
            (recommended_capacity * peak_sun_hours * 30 * system_loss_factor) \div 100
        monthly_savings == monthly_generation * electricity_rate
        annual_savings == monthly_savings * 12
    IN  [ raised |-> raised,
          recommended_capacity |-> recommended_capacity,
          monthly_consumption |-> monthly_consumption,
          estimated_cost |-> total_cost,
          monthly_savings |-> monthly_savings,
          annual_savings |-> annual_savings,
          payback_period |-> PaybackYears(total_cost, annual_savings),
          \* round(monthly_generation * 12 * 0.453592 / 1000, 2), in hundredths:
          \* 12 * 0.453592 / 1000 * 100 = 170097 / 312500
          carbon_offset |-> Round(monthly_generation * 170097, 312500),
          net_metering_eligible |-> NetMeteringEligible(recommended_capacity),
          required_area |-> required_area,
          monthly_generation |-> monthly_generation ]

\* no recommendation: the call has not returned
NoRecommendation == Recommendation(NONE, 0, Num(0), 0)

\* an estimator that applies the roof check to residential property only
get_solar_recommendation_ByProperty(monthly_bill, roof_area, property_type) ==
    LET monthly_consumption == IF monthly_bill.kind = "num"
            THEN Num((monthly_bill.v * 100) \div electricity_rate) ELSE monthly_bill
        ladder == LadderCapacity(monthly_bill)
        required_area == RequiredArea(ladder)
        constrained == property_type = "residential" /\ FloatLt(roof_area, required_area)
    IN  IF constrained /\ roof_area.kind = "-inf"
        THEN [NoRecommendation EXCEPT !.raised = "OverflowError"]
        ELSE Recommendation(NONE, IF constrained THEN RoofCapacity(roof_area) ELSE ladder,
                            monthly_consumption, required_area)

get_solar_recommendation(monthly_bill, roof_area, property_type) ==
    LET \* round(monthly_bill / electricity_rate, 2), in hundredths
        monthly_consumption ==
            IF monthly_bill.kind = "num"
            THEN Num((monthly_bill.v * 100) \div electricity_rate)
            ELSE monthly_bill
        ladder == LadderCapacity(monthly_bill)
        required_area == RequiredArea(ladder)
        \* if required_area > roof_area
        constrained == FloatLt(roof_area, required_area)
    IN  IF constrained /\ roof_area.kind = "-inf"
        THEN [NoRecommendation EXCEPT !.raised = "OverflowError"]
        ELSE Recommendation(NONE,
                            IF constrained THEN RoofCapacity(roof_area) ELSE ladder,
                            monthly_consumption, required_area)

-----------------------------------------------------------------------------
(* Decorators *)

\* login_required: 'user_id' in session
LoggedIn(session) == session # NoUser

\* a decorator that checks the login and not the role
IsAdmin_AnyUser(session) == session \in Users

\* admin_required: logged in, the user exists and its user_type is 'admin'
IsAdmin(session) == session \in Users /\ user_type(session) = "admin"

-----------------------------------------------------------------------------
(* apply_metering, POST *)

\* an upper limit that is off by one
CapacityOutOfRange_UpperOff(capacity) == FloatLt(capacity, 1) \/ FloatGt(capacity, 51)

\* if system_capacity < 1 or system_capacity > 50: reject
CapacityOutOfRange(capacity) == FloatLt(capacity, 1) \/ FloatGt(capacity, 50)

\* a net-metering minimum that is off by one
NetBelowMinimum_LowerOff(application_type, capacity) ==
    application_type = "net" /\ FloatLt(capacity, 4)

\* if application_type == 'net' and system_capacity < 5: reject
NetBelowMinimum(application_type, capacity) ==
    application_type = "net" /\ FloatLt(capacity, 5)

\* the file fields the handler reads from the request
MeteringDocFields(ownership_type) ==
    BaseDocs \cup (IF ownership_type = "owner" THEN {"land_ownership"} ELSE {"noc_document"})

\* required documents without the owner's land_ownership
MeteringRequiredDocs_BaseOnly(ownership_type) == BaseDocs

\* required_docs
MeteringRequiredDocs(ownership_type) ==
    BaseDocs \cup (IF ownership_type = "owner" THEN {"land_ownership"} ELSE {})

\* the elif branch: a tenant with neither a NOC document nor a NOC message
TenantWithoutNoc(ownership_type, uploaded_docs, noc_message) ==
    /\ ownership_type # "owner"
    /\ ownership_type = "tenant"
    /\ "noc_document" \notin DOMAIN uploaded_docs
    /\ Strip(noc_message) = ""

\* a request that ends without a commit leaves the table as it is
Unchanged(result) == [result |-> result, apps |-> apps]

\* a create that ends without a commit: the table as it is, and the files it saved
Refused(result, saved) ==
    [result |-> result, apps |-> apps, uploads |-> uploads \cup saved]

\* the outcome of the request: the flashed message (or the error), the table and the
\* upload folder after it; `failing` is the field whose file.save() raises, or NONE
ApplyMeteringRequest(session, form, random_num, failing) ==
    LET capacity == form.system_capacity
        doc_fields == MeteringDocFields(form.ownership_type)
        saved == SavedFiles(form.files, doc_fields, failing)
        uploaded_docs == UploadedDocs(form.files, doc_fields)
        application ==
            NewApplication(session, form.application_type, capacity,
                           form.consumption_units, form.property_type,
                           form.property_address, form.ownership_type, uploaded_docs,
                           IF form.ownership_type = "tenant" THEN form.noc_message ELSE NONE,
                           generate_reference(form.application_type, now, random_num))
    IN  IF ~LoggedIn(session) THEN Refused("login_required", {})
        ELSE IF capacity.kind = "missing" THEN Refused("server_error", {})
        ELSE IF ~(StrTruthy(form.application_type) /\ FloatTruthy(capacity)
                    /\ StrTruthy(form.property_address))
             THEN Refused("fields_required", {})
        ELSE IF CapacityOutOfRange(capacity) THEN Refused("capacity_range", {})
        ELSE IF NetBelowMinimum(form.application_type, capacity)
             THEN Refused("net_minimum", {})
        ELSE IF failing \in form.files \cap doc_fields
             THEN Refused("storage_error", saved)
        ELSE IF TenantWithoutNoc(form.ownership_type, uploaded_docs, form.noc_message)
             THEN Refused("tenant_noc", saved)
        ELSE IF ~(MeteringRequiredDocs(form.ownership_type) \subseteq DOMAIN uploaded_docs)
             THEN Refused("missing_documents", saved)
        ELSE IF ~CommitAccepts(apps, application) THEN Refused("server_error", saved)
        ELSE [result |-> "submitted", apps |-> Append(apps, application),
              uploads |-> uploads \cup saved]

\* the request when every file.save() succeeds
ApplyMeteringPost(session, form, random_num) ==
    ApplyMeteringRequest(session, form, random_num, NONE)

-----------------------------------------------------------------------------
(* apply_solar_setup, POST *)

ApplySolarSetupRequest(session, form, random_num, failing) ==
    LET capacity == IF form.system_capacity.kind = "missing" THEN Num(0)
                    ELSE form.system_capacity
        saved == SavedFiles(form.files, BaseDocs, failing)
        uploaded_docs == UploadedDocs(form.files, BaseDocs)
        application ==
            NewApplication(session, "simple_solar", capacity,
                           form.consumption_units, form.property_type,
                           form.property_address, "owner", uploaded_docs, NONE,
                           generate_reference("simple_solar", now, random_num))
    IN  IF ~LoggedIn(session) THEN Refused("login_required", {})
        ELSE IF ~(FloatTruthy(capacity) /\ StrTruthy(form.property_address))
             THEN Refused("fields_required", {})
        ELSE IF CapacityOutOfRange(capacity) THEN Refused("capacity_range", {})
        ELSE IF failing \in form.files \cap BaseDocs
             THEN Refused("storage_error", saved)
        ELSE IF ~(BaseDocs \subseteq DOMAIN uploaded_docs)
             THEN Refused("missing_documents", saved)
        ELSE IF ~CommitAccepts(apps, application) THEN Refused("server_error", saved)
        ELSE [result |-> "submitted", apps |-> Append(apps, application),
              uploads |-> uploads \cup saved]

\* the request when every file.save() succeeds
ApplySolarSetupPost(session, form, random_num) ==
    ApplySolarSetupRequest(session, form, random_num, NONE)

-----------------------------------------------------------------------------
(* admin_application_detail, POST *)

\* an update that also refreshes submitted_at
UpdateApplication_Resubmits(application, status, admin_notes) ==
    [application EXCEPT !.status = status,
                        !.admin_notes = admin_notes,
                        !.updated_at = now,
                        !.submitted_at = now]

\* an update that appends to earlier notes instead of overwriting them
UpdateApplication_Appends(application, status, admin_notes) ==
    [application EXCEPT !.status = status,
                        !.admin_notes = IF application.admin_notes = NONE
                                        THEN admin_notes
                                        ELSE "earlier notes; new notes",
                        !.updated_at = now]

\* the three assignments of the handler
UpdateApplication(application, status, admin_notes) ==
    [application EXCEPT !.status = status,
                        !.admin_notes = admin_notes,
                        !.updated_at = now]

\* an update that treats rejected and completed as terminal
AdminApplicationDetailPost_Terminal(session, app_id, status, admin_notes) ==
    IF ~LoggedIn(session) THEN Unchanged("login_required")
    ELSE IF ~IsAdmin(session) THEN Unchanged("admin_required")
    ELSE IF app_id \notin DOMAIN apps THEN Unchanged("not_found")
    ELSE IF apps[app_id].status \in {"rejected", "completed"}
    THEN Unchanged("refused")
    ELSE [result |-> "updated",
          apps |-> [apps EXCEPT ![app_id] = UpdateApplication(@, status, admin_notes)]]

AdminApplicationDetailPost(session, app_id, status, admin_notes) ==
    IF ~LoggedIn(session) THEN Unchanged("login_required")
    ELSE IF ~IsAdmin(session) THEN Unchanged("admin_required")
    ELSE IF app_id \notin DOMAIN apps THEN Unchanged("not_found")
    ELSE [result |-> "updated",
          apps |-> [apps EXCEPT ![app_id] = UpdateApplication(@, status, admin_notes)]]

-----------------------------------------------------------------------------
(* admin_application_detail, POST, as the two steps concurrent requests interleave: *)
(* the handler loads the row into its own session and assigns the three          *)
(* attributes there; db.session.commit() then flushes one UPDATE of the row.     *)

Workers == {"w1", "w2"}

\* a worker that handles no admin update
Idle ==
    [ app_id |-> 0, by |-> NoUser, loaded |-> <<NONE, NONE>>,
      status |-> NONE, admin_notes |-> NONE, updated_at |-> 0 ]

\* get_or_404 and the three assignments: the row as this session loaded it and the
\* values assigned to it
LoadedUpdate(session, app_id, status, admin_notes) ==
    [ app_id |-> app_id, by |-> session,
      loaded |-> <<apps[app_id].status, apps[app_id].admin_notes>>,
      status |-> status, admin_notes |-> admin_notes, updated_at |-> now ]

\* a flush that writes every assigned column
FlushUpdate_AllColumns(row, request) ==
    [row EXCEPT !.status = request.status,
                !.admin_notes = request.admin_notes,
                !.updated_at = request.updated_at]

\* the UPDATE the unit of work flushes at commit: it sets the columns whose assigned
\* value differs from the value this session loaded, and leaves the others as
\* they are in the table
FlushUpdate(row, request) ==
    [row EXCEPT !.status = IF request.status # request.loaded[1]
                           THEN request.status ELSE @,
                !.admin_notes = IF request.admin_notes # request.loaded[2]
                                THEN request.admin_notes ELSE @,
                !.updated_at = request.updated_at]

-----------------------------------------------------------------------------
(* add_to_cart, POST, as the two steps concurrent requests interleave: the      *)
(* handler reads the cart row of the user and the product into its own session  *)
(* and increments it or builds a new one there; db.session.commit() then        *)
(* flushes the UPDATE or the INSERT.  The cart table has no unique constraint    *)
(* on (user_id, product_id).                                                     *)

\* a worker that handles no add_to_cart request
NotAdding ==
    [ user_id |-> NoUser, product_id |-> 0, quantity |-> 0,
      cart_item |-> 0, loaded |-> 0 ]

\* the rows filter_by(user_id, product_id) matches
CartItems(user_id, product_id) ==
    {i \in DOMAIN cart : cart[i].user_id = user_id /\ cart[i].product_id = product_id}

\* .first(): the matching row of the lowest id, or none (0)
FirstCartItem(user_id, product_id) ==
    IF CartItems(user_id, product_id) = {} THEN 0
    ELSE Min(CartItems(user_id, product_id))

\* the request after the query: the row it found and the quantity it read there
LoadedCartItem(session, product_id, quantity) ==
    LET cart_item == FirstCartItem(session, product_id)
    IN  [ user_id |-> session, product_id |-> product_id, quantity |-> quantity,
          cart_item |-> cart_item,
          loaded |-> IF cart_item = 0 THEN 0 ELSE cart[cart_item].quantity ]

\* the flush at commit: UPDATE cart SET quantity = (the quantity read + the quantity
\* added), or the INSERT of the new row
FlushCart(table, request) ==
    IF request.cart_item = 0
    THEN Append(table, [ user_id |-> request.user_id,
                         product_id |-> request.product_id,
                         quantity |-> request.quantity ])
    ELSE [table EXCEPT ![request.cart_item].quantity = request.loaded + request.quantity]

-----------------------------------------------------------------------------
(* application_status (the owner's view) and api_application_status *)

ApplicationStatusView(session, app_id) ==
    IF ~LoggedIn(session) THEN "login_required"
    ELSE IF app_id \notin DOMAIN apps THEN "not_found"
    ELSE IF apps[app_id].user_id # session /\ user_type(session) # "admin"
         THEN "access_denied"
    ELSE "rendered"

\* a lookup that compares the prefix and the date and not the random suffix
FirstByReference_PrefixDate(ref_number) ==
    LET found == {i \in DOMAIN apps :
                     /\ apps[i].reference_number[1] = ref_number[1]
                     /\ apps[i].reference_number[2] = ref_number[2]}
    IN  IF found = {} THEN 0 ELSE CHOOSE i \in found : \A j \in found : i <= j

\* filter_by(reference_number=ref_number).first(): the matching row of lowest id
FirstByReference(ref_number) ==
    LET found == {i \in DOMAIN apps : apps[i].reference_number = ref_number}
    IN  IF found = {} THEN 0 ELSE CHOOSE i \in found : \A j \in found : i <= j

ApiApplicationStatus(ref_number) ==
    LET id == FirstByReference(ref_number)
    IN  IF id = 0
        THEN [code |-> 404, body |-> [error |-> "Application not found"]]
        ELSE [code |-> 200,
              body |-> [reference_number |-> apps[id].reference_number,
                        type |-> apps[id].application_type,
                        capacity |-> apps[id].system_capacity,
                        status |-> apps[id].status,
                        submitted_at |-> apps[id].submitted_at,
                        updated_at |-> apps[id].updated_at]]

-----------------------------------------------------------------------------
(* The requests the model draws *)

OwnerFiles == BaseDocs \cup {"land_ownership"}

\* a form that passes every check of apply_metering
ValidForm ==
    [ application_type |-> "gross",
      system_capacity |-> Num(5),
      consumption_units |-> 0,
      property_type |-> "residential",
      property_address |-> "House 1, Rawalpindi",
      ownership_type |-> "owner",
      noc_message |-> "",
      files |-> OwnerFiles ]

\* a tenant's form that passes every check of apply_metering
TenantForm ==
    [ValidForm EXCEPT !.application_type = "net", !.system_capacity = Num(50),
                      !.ownership_type = "tenant",
                      !.files = BaseDocs \cup {"noc_document"}]

TypeInputs == {"net", "gross", "simple_solar", "other", NONE}
CapacityInputs ==
    {Missing, NaN, Num(0 - 1), Num(0), Num(1), Num(4), Num(5), Num(50), Num(51)}
OwnershipInputs == {"owner", "tenant", "other"}
NocMessageInputs == {"", " ", "landlord consents"}
FileInputs == {BaseDocs \cup x : x \in SUBSET {"land_ownership", "noc_document"}}
                 \cup {{"electricity_bill", "cnic_front", "land_ownership", "noc_document"}}

\* forms that vary the classification and the sizing
SizingForms ==
    {[ValidForm EXCEPT !.application_type = t, !.system_capacity = c] :
        t \in TypeInputs, c \in CapacityInputs}

\* forms that vary the ownership, the uploads and the NOC message
DocumentForms ==
    {[ValidForm EXCEPT !.application_type = t, !.ownership_type = o,
                       !.noc_message = m, !.files = f] :
        t \in {"gross", "simple_solar"}, o \in OwnershipInputs,
        m \in NocMessageInputs, f \in FileInputs}

AddressForms == {[ValidForm EXCEPT !.property_address = a] : a \in {"", NONE}}

\* every form of the three families
AllForms == SizingForms \cup DocumentForms \cup AddressForms

\* the status field is free text: the five values and one that is none of them
StatusInputs == StatusValues \cup {"on_hold"}
NotesInputs == {NONE, "verified"}

\* file.save() raises at no field, or at the third
StorageFailures == {NONE, "cnic_back"}

AppIds == 1 .. MaxApps
ReferenceInputs ==
    {<<p, d, r>> : p \in {"NET", "GROSS", "SOL", "APP"}, d \in 0 .. MaxDay,
                   r \in RandomNumbers}

-----------------------------------------------------------------------------
(* The handlers as actions.  A handler is one action; the sets it draws the   *)
(* session and the request from are its parameters.                           *)

\* a request to the calculator: its three fields, the route it came by, how it
\* ended (pending, returned, raised, or none when the page shows no recommendation)
\* and what it returned
Quote(monthly_bill, roof_area, property_type) ==
    [ monthly_bill |-> monthly_bill, roof_area |-> roof_area,
      property_type |-> property_type, route |-> NONE, outcome |-> "pending",
      recommendation |-> NoRecommendation ]

\* no request to the calculator
NoQuote == [Quote(Num(0), Num(0), NONE) EXCEPT !.outcome = "none"]

Init ==
    /\ apps = <<>>
    /\ now = 0
    /\ hist = <<>>
    /\ uploads = {}
    /\ inflight = [w \in Workers |-> Idle]
    /\ quote = NoQuote
    /\ cart = <<>>
    /\ adding = [w \in Workers |-> NotAdding]
    /\ added = <<>>

\* the clock advances
Tick ==
    /\ now < MaxDay
    /\ now' = now + 1
    /\ UNCHANGED <<apps, hist, uploads, inflight, quote, shop>>

\* the history of a create: the submitted classification and sizing of a new row
HistAfterCreate(out, application_type, capacity) ==
    IF Len(out.apps) > Len(apps)
    THEN Append(hist, [application_type |-> application_type,
                       system_capacity |-> capacity,
                       last |-> <<>>, by |-> NoUser, repeated |-> FALSE])
    ELSE hist

\* the history of an update: the pair posted, who posted it, and whether it repeats
\* the pair posted last
HistAfterUpdate(out, session, app_id, update) ==
    IF out.result = "updated"
    THEN [hist EXCEPT ![app_id].last = update,
                      ![app_id].by = session,
                      ![app_id].repeated = (hist[app_id].last = update)]
    ELSE hist

\* an admin has updated the row
Touched(app_id) == hist[app_id].last # <<>>

ApplyMetering(sessions, forms, numbers, failures) ==
    \E session \in sessions, form \in forms, random_num \in numbers,
       failing \in failures :
        LET out == ApplyMeteringRequest(session, form, random_num, failing)
        IN  /\ Len(apps) < MaxApps
            /\ apps' = out.apps
            /\ uploads' = out.uploads
            /\ hist' = HistAfterCreate(out, form.application_type, form.system_capacity)
            /\ UNCHANGED <<now, inflight, quote, shop>>

ApplySolarSetup(sessions, forms, numbers, failures) ==
    \E session \in sessions, form \in forms, random_num \in numbers,
       failing \in failures :
        LET out == ApplySolarSetupRequest(session, form, random_num, failing)
        IN  /\ Len(apps) < MaxApps
            /\ apps' = out.apps
            /\ uploads' = out.uploads
            /\ hist' = HistAfterCreate(out, "simple_solar", form.system_capacity)
            /\ UNCHANGED <<now, inflight, quote, shop>>

AdminApplicationDetail(sessions, updates) ==
    \E session \in sessions, app_id \in AppIds, update \in updates :
        LET out == AdminApplicationDetailPost(session, app_id, update[1], update[2])
        IN  /\ apps' = out.apps
            /\ hist' = HistAfterUpdate(out, session, app_id, update)
            /\ UNCHANGED <<now, uploads, inflight, quote, shop>>

\* a worker takes an admin update: admin_required, get_or_404, the assignments
AdminLoad(sessions, updates) ==
    \E w \in Workers, session \in sessions, app_id \in AppIds, update \in updates :
        /\ inflight[w] = Idle
        /\ AdminApplicationDetailPost(session, app_id, update[1], update[2]).result
               = "updated"
        /\ inflight' = [inflight EXCEPT
               ![w] = LoadedUpdate(session, app_id, update[1], update[2])]
        /\ UNCHANGED <<apps, now, hist, uploads, quote, shop>>

\* the worker commits: the UPDATE is flushed and the request ends
AdminCommit ==
    \E w \in Workers :
        LET request == inflight[w]
            update == <<request.status, request.admin_notes>>
        IN  /\ request # Idle
            /\ apps' = [apps EXCEPT ![request.app_id] = FlushUpdate(@, request)]
            /\ hist' = [hist EXCEPT
                   ![request.app_id].last = update,
                   ![request.app_id].by = request.by,
                   ![request.app_id].repeated = (hist[request.app_id].last = update)]
            /\ inflight' = [inflight EXCEPT ![w] = Idle]
            /\ UNCHANGED <<now, uploads, quote, shop>>

\* the number of add_to_cart requests taken so far
CartRequests == Len(added) + Cardinality({w \in Workers : adding[w] # NotAdding})

\* a worker takes an add_to_cart request: login_required, the form, the query
AddToCartLoad(sessions, products, quantities) ==
    \E w \in Workers, session \in sessions, product_id \in products,
       quantity \in quantities :
        /\ adding[w] = NotAdding
        /\ CartRequests < MaxAdds
        /\ LoggedIn(session)
        /\ adding' = [adding EXCEPT ![w] = LoadedCartItem(session, product_id, quantity)]
        /\ UNCHANGED <<apps, now, hist, uploads, inflight, quote, cart, added>>

\* the worker commits: the UPDATE or the INSERT is flushed and the request ends
AddToCartCommit ==
    \E w \in Workers :
        LET request == adding[w]
        IN  /\ request # NotAdding
            /\ cart' = FlushCart(cart, request)
            /\ added' = Append(added, <<request.user_id, request.product_id,
                                        request.quantity>>)
            /\ adding' = [adding EXCEPT ![w] = NotAdding]
            /\ UNCHANGED <<apps, now, hist, uploads, inflight, quote>>

ApplicationStatus ==
    \E session \in Sessions, app_id \in AppIds :
        /\ ApplicationStatusView(session, app_id) \in
               {"login_required", "not_found", "access_denied", "rendered"}
        /\ UNCHANGED <<apps, now, hist, uploads, inflight, quote, shop>>

ApiStatus ==
    \E ref_number \in ReferenceInputs :
        /\ ApiApplicationStatus(ref_number).code \in {200, 404}
        /\ UNCHANGED <<apps, now, hist, uploads, inflight, quote, shop>>

-----------------------------------------------------------------------------
(* Specification Spec: the life cycle.  Two valid forms, every session, an     *)
(* admin who posts statuses and notes, the clock and the two read operations. *)

LifecycleForms == {ValidForm, TenantForm}
LifecycleUpdates ==
    {<<s, "verified">> : s \in {"approved", "rejected", "on_hold"}}
        \cup {<<"approved", n>> : n \in NotesInputs}

Next ==
    \/ Tick
    \/ ApplyMetering({NoUser, "client"}, LifecycleForms, RandomNumbers, {NONE})
    \/ ApplySolarSetup({NoUser, "admin"}, {ValidForm}, RandomNumbers, {NONE})
    \/ AdminApplicationDetail(Sessions, LifecycleUpdates)
    \/ ApplicationStatus
    \/ ApiStatus

Spec == Init /\ [][Next]_vars

-----------------------------------------------------------------------------
(* Specification SpecIntake: the validation of the two create operations.     *)
(* Every form of the three families, by a logged-in client, and the admin     *)
(* update.                                                                    *)

NextIntake ==
    \/ ApplyMetering({"client"}, AllForms, {RandMin}, StorageFailures)
    \/ ApplySolarSetup({"client"}, AllForms, {RandMin}, StorageFailures)
    \/ AdminApplicationDetail({"admin"}, {<<"approved", "verified">>})

SpecIntake == Init /\ [][NextIntake]_vars

-----------------------------------------------------------------------------
(* Specification SpecConcurrent: admin updates handled by two workers at once.  *)
(* A create, the clock, and the two steps of the update of each worker.         *)

ConcurrentUpdates == {<<"approved", "verified">>, <<"rejected", NONE>>}

NextConcurrent ==
    \/ Tick
    \/ ApplyMetering({"client"}, {ValidForm}, {RandMin}, {NONE})
    \/ AdminLoad({"client", "admin"}, ConcurrentUpdates)
    \/ AdminCommit

SpecConcurrent == Init /\ [][NextConcurrent]_vars

-----------------------------------------------------------------------------
(* Specification SpecStatus: the status an admin may post.  A create, the      *)
(* clock, and updates to each of the five status values from every status.    *)

StatusUpdates == {<<s, NONE>> : s \in StatusValues}

NextStatus ==
    \/ Tick
    \/ ApplyMetering({"client"}, {ValidForm}, RandomNumbers, {NONE})
    \/ AdminApplicationDetail({"client", "admin"}, StatusUpdates)

SpecStatus == Init /\ [][NextStatus]_vars

-----------------------------------------------------------------------------
(* Specification SpecReference: the reference code of a create.  Forms of each  *)
(* type on both create operations, both ends of the random range, the clock.    *)

ReferenceForms ==
    {[ValidForm EXCEPT !.application_type = t] : t \in TypeInputs \ {NONE}}

NextReference ==
    \/ Tick
    \/ ApplyMetering({"client"}, ReferenceForms, RandomNumbers, {NONE})
    \/ ApplySolarSetup({"client"}, ReferenceForms, RandomNumbers, {NONE})

SpecReference == Init /\ [][NextReference]_vars

-----------------------------------------------------------------------------
(* Specification SpecCart: add_to_cart handled by two workers at once.  Two      *)
(* users, two products, quantities of 1 and 2, and the two steps of each worker. *)

Products == {1, 2}
Quantities == {1, 2}

NextCart ==
    \/ AddToCartLoad(Sessions, Products, Quantities)
    \/ AddToCartCommit

SpecCart == Init /\ [][NextCart]_vars

-----------------------------------------------------------------------------
(* Specification SpecEstimator: the solar calculator.  The initial states draw   *)
(* the request; the JSON endpoint and the page apply get_solar_recommendation.   *)

LadderBills == {3300 * standard_capacities[k] : k \in DOMAIN standard_capacities}

\* bills on both sides of every step of the ladder, zero, a negative one, and
\* the floats that are no numbers
BillInputs ==
    {Num(b + d) : b \in LadderBills, d \in {0 - 1, 0, 1}}
        \cup {Num(0 - 100), Num(0), Num(1), Num(100000), Num(200000), NaN, PosInf, NegInf}

RoofInputs ==
    {Num(a) : a \in {0 - 250, 0, 50, 99, 100, 250, 400, 499, 500, 1000, 4999, 5000}}
        \cup {NaN, PosInf, NegInf}

PropertyTypes == {"residential", "commercial"}

InitEstimator ==
    /\ apps = <<>>
    /\ now = 0
    /\ hist = <<>>
    /\ uploads = {}
    /\ cart = <<>>
    /\ adding = [w \in Workers |-> NotAdding]
    /\ added = <<>>
    /\ inflight = [w \in Workers |-> Idle]
    /\ quote \in {Quote(b, a, t) : b \in BillInputs, a \in RoofInputs,
                                     t \in PropertyTypes}

\* the request has its answer
Answered(route, recommendation) ==
    [quote EXCEPT !.route = route,
                  !.outcome = IF recommendation.raised # NONE THEN "raised"
                              ELSE "returned",
                  !.recommendation = recommendation]

\* POST /api/solar-calculator: no validation of the two numbers
ApiSolarCalculator ==
    /\ quote.outcome = "pending"
    /\ quote' = Answered("api", get_solar_recommendation(
                     quote.monthly_bill, quote.roof_area, quote.property_type))
    /\ UNCHANGED <<apps, now, hist, uploads, inflight, shop>>

\* POST /solar-calculator: the recommendation is computed when both numbers are
\* positive; otherwise the page shows none
SolarCalculator ==
    /\ quote.outcome = "pending"
    /\ quote' = IF FloatGt(quote.monthly_bill, 0) /\ FloatGt(quote.roof_area, 0)
                 THEN Answered("page", get_solar_recommendation(
                          quote.monthly_bill, quote.roof_area, quote.property_type))
                 ELSE [quote EXCEPT !.route = "page", !.outcome = "none"]
    /\ UNCHANGED <<apps, now, hist, uploads, inflight, shop>>

NextEstimator == ApiSolarCalculator \/ SolarCalculator

SpecEstimator == InitEstimator /\ [][NextEstimator]_vars

-----------------------------------------------------------------------------
(* Claims *)

Rows == DOMAIN apps

\* the form f with classification t and sizing c
Sized(f, t, c) == [f EXCEPT !.application_type = t, !.system_capacity = c]

\* C1: no persisted application of type net has a capacity below 5, and a create
\* with type net and capacity 4 is refused whatever the other fields and files are.
C1_NetNeverBelowFive ==
    /\ \A i \in Rows :
          apps[i].application_type = "net" =>
              apps[i].system_capacity.kind = "num" /\ apps[i].system_capacity.v >= 5
    /\ \A session \in Sessions, f \in AllForms :
          LET out == ApplyMeteringPost(session, Sized(f, "net", Num(4)), RandMin)
          IN  out.result # "submitted" /\ out.apps = apps

\* a net application of exactly 5 kW next to a smaller one of another type, after an
\* admin update
C1_Witness ==
    \E i \in Rows, j \in Rows :
        /\ apps[i].application_type = "net" /\ apps[i].system_capacity = Num(5)
        /\ apps[j].application_type # "net" /\ apps[j].system_capacity = Num(4)
        /\ Touched(i)

\* C2: every persisted application has 1 <= system_capacity <= 50; both creates
\* refuse a capacity below 1 or above 50.
C2_CapacityInRange ==
    /\ \A i \in Rows :
          /\ apps[i].system_capacity.kind = "num"
          /\ 1 <= apps[i].system_capacity.v
          /\ apps[i].system_capacity.v <= 50
    /\ \A f \in AllForms :
          (FloatLt(f.system_capacity, 1) \/ FloatGt(f.system_capacity, 50)) =>
              /\ ApplyMeteringPost("client", f, RandMin).apps = apps
              /\ ApplySolarSetupPost("client", f, RandMin).apps = apps

\* applications of 1 kW and of 50 kW, one of them updated by the admin
C2_Witness ==
    \E i \in Rows, j \in Rows :
        /\ apps[i].system_capacity = Num(1)
        /\ apps[j].system_capacity = Num(50)
        /\ Touched(i)

\* tenants' forms that are valid but for the NOC: with or without the NOC document,
\* with an empty, a blank or a written NOC message
TenantForms ==
    {[TenantForm EXCEPT !.noc_message = m, !.files = BaseDocs \cup x] :
        m \in NocMessageInputs, x \in SUBSET {"noc_document"}}

NocDocument(f) == "noc_document" \in f.files
NocMessage(f) == f.noc_message \notin {"", " "}

\* C3: a tenant's create through apply_metering, valid but for the NOC, is refused
\* when neither a NOC document nor a non-blank NOC message is supplied and succeeds
\* when exactly one of them is.
C3_TenantNocEitherOne ==
    \A f \in TenantForms, random_num \in RandomNumbers :
        LET out == ApplyMeteringPost("client", f, random_num)
        IN  /\ (~NocDocument(f) /\ ~NocMessage(f)) =>
                   out.result # "submitted" /\ out.apps = apps
            /\ (NocDocument(f) # NocMessage(f)) =>
                   out.result = "submitted" /\ Len(out.apps) = Len(apps) + 1

\* C4: a create of type simple_solar with only the three base documents succeeds on
\* both create operations, for an owner and for a tenant.
C4_SimpleSolarBaseDocsOnly ==
    \A o \in {"owner", "tenant"} :
        LET f == [ValidForm EXCEPT !.application_type = "simple_solar",
                                   !.ownership_type = o, !.files = BaseDocs]
        IN  /\ ApplySolarSetupPost("client", f, RandMin).result = "submitted"
            /\ ApplyMeteringPost("client", f, RandMin).result = "submitted"

\* C5: the documents of every persisted application contain the three base
\* documents, and land_ownership when the type is not simple_solar and the
\* ownership is owner.
C5_RequiredDocumentsStored ==
    \A i \in Rows :
        /\ BaseDocs \subseteq DOMAIN apps[i].documents
        /\ (apps[i].application_type # "simple_solar" /\ apps[i].ownership_type = "owner")
               => "land_ownership" \in DOMAIN apps[i].documents

\* an owner's gross application with its land_ownership document, next to a
\* simple_solar one that holds the base documents alone
C5_Witness ==
    \E i \in Rows, j \in Rows :
        /\ apps[i].application_type = "gross" /\ apps[i].ownership_type = "owner"
        /\ "land_ownership" \in DOMAIN apps[i].documents
        /\ apps[j].application_type = "simple_solar"
        /\ DOMAIN apps[j].documents = BaseDocs

\* C6: for every created application no admin has updated, the status lookup by its
\* reference returns the type and the capacity that were submitted, and pending.
C6_LookupRoundTrip ==
    \A i \in Rows :
        ~Touched(i) =>
            LET r == ApiApplicationStatus(apps[i].reference_number)
            IN  /\ r.code = 200
                /\ r.body.reference_number = apps[i].reference_number
                /\ r.body.type = hist[i].application_type
                /\ r.body.capacity = hist[i].system_capacity
                /\ r.body.status = "pending"

\* a fresh application next to one the admin has updated
C6_Witness ==
    \E i \in Rows, j \in Rows :
        /\ ~Touched(i) /\ Touched(j)
        /\ apps[j].status # "pending"
        /\ apps[i].application_type # apps[j].application_type

\* C7: the status of every persisted application is one of the five values.
C7_StatusAmongFive == \A i \in Rows : apps[i].status \in StatusValues

\* C8: the status and the admin_notes of an existing application change only in
\* an admin update, posted by a principal whose role is admin.
C8_OnlyAdminChangesStatus ==
    [][ \A i \in Rows :
          (apps'[i].status # apps[i].status \/ apps'[i].admin_notes # apps[i].admin_notes)
              => /\ hist'[i].last = <<apps'[i].status, apps'[i].admin_notes>>
                 /\ hist'[i].last # hist[i].last
                 /\ hist'[i].by \in Users
                 /\ user_type(hist'[i].by) = "admin" ]_vars

\* an application whose status and notes an admin has set
C8_Witness ==
    \E i \in Rows : apps[i].status = "rejected" /\ apps[i].admin_notes = "verified"

\* C9: an admin update that posts the pair the last update of the application
\* posted changes nothing of the stored state but updated_at.
C9_UpdateIdempotent ==
    [][ \A i \in Rows :
          (Touched(i) /\ hist'[i].last = hist[i].last /\ apps'[i] # apps[i])
              => /\ hist'[i].repeated
                 /\ apps' = [apps EXCEPT ![i].updated_at = apps'[i].updated_at] ]_vars

\* the same pair posted twice in a row, the second time on a later date
C9_Witness ==
    \E i \in Rows :
        /\ hist[i].repeated
        /\ apps[i].status = "approved" /\ apps[i].admin_notes = "verified"
        /\ apps[i].updated_at > apps[i].submitted_at

\* the fields of a row an admin update leaves alone
Immutable(row) ==
    [row EXCEPT !.status = NONE, !.admin_notes = NONE, !.updated_at = 0]

\* C10: a step changes nothing of an existing application but status, admin_notes
\* and updated_at, and changes at most one existing application.
C10_UpdateFrame ==
    [][ /\ \A i \in Rows : Immutable(apps'[i]) = Immutable(apps[i])
        /\ \A i \in Rows, j \in Rows :
              (apps'[i] # apps[i] /\ apps'[j] # apps[j]) => i = j ]_vars

\* an updated application, on a later date than its submission, next to a fresh one
C10_Witness ==
    \E i \in Rows, j \in Rows :
        /\ Touched(i) /\ apps[i].updated_at > apps[i].submitted_at
        /\ ~Touched(j) /\ apps[j].updated_at = apps[j].submitted_at

\* C11: no two persisted applications have the same reference_number, and a create
\* that draws the reference of a persisted application adds no row.
C11_ReferenceUnique ==
    /\ \A i \in Rows, j \in Rows :
          apps[i].reference_number = apps[j].reference_number => i = j
    /\ \A f \in LifecycleForms, random_num \in RandomNumbers :
          (\E i \in Rows : apps[i].reference_number
                              = generate_reference(f.application_type, now, random_num))
              => ApplyMeteringPost("client", f, random_num).apps = apps

\* two applications of the same type created on the same day: their references
\* differ in the random suffix alone
C11_Witness ==
    \E i \in Rows, j \in Rows :
        /\ i # j
        /\ apps[i].reference_number[1] = apps[j].reference_number[1]
        /\ apps[i].reference_number[2] = apps[j].reference_number[2]
        /\ apps[i].reference_number[3] # apps[j].reference_number[3]

\* the stored paths the documents of a row refer to
DocumentPaths(row) == {row.documents[k] : k \in DOMAIN row.documents}

\* C12: a create is atomic with respect to document storage: the documents of every
\* persisted application are stored, and every stored file is a document of a
\* persisted application (a create that adds no record leaves no file behind).
C12_CreateAtomic ==
    /\ \A i \in Rows : DocumentPaths(apps[i]) \subseteq uploads
    /\ \A path \in uploads : \E i \in Rows : path \in DocumentPaths(apps[i])

\* C13: the stored pair (status, admin_notes) of an application an admin has updated
\* is the pair submitted by the update that committed last, also when two updates
\* of the application ran concurrently.
C13_LastWriteWins ==
    \A i \in Rows :
        Touched(i) => <<apps[i].status, apps[i].admin_notes>> = hist[i].last

\* the fields of the projection a successful lookup returns
ProjectionFields ==
    {"reference_number", "type", "capacity", "status", "submitted_at", "updated_at"}

\* the reference matches no persisted application
Unmatched(ref_number) == \A i \in Rows : apps[i].reference_number # ref_number

\* C14 as stated: a lookup by a reference that matches no persisted application
\* returns 404 with no body fields.
C14_NotFoundNoBodyFields ==
    \A ref_number \in ReferenceInputs :
        Unmatched(ref_number) =>
            LET r == ApiApplicationStatus(ref_number)
            IN  r.code = 404 /\ DOMAIN r.body = {}

\* C14 as amended: a lookup by a reference that matches no persisted application
\* returns 404 with a body that holds an error message and no field of the
\* projection; a reference that matches one returns 200 with the projection.
C14_NotFoundErrorBody ==
    \A ref_number \in ReferenceInputs :
        LET r == ApiApplicationStatus(ref_number)
        IN  IF Unmatched(ref_number)
            THEN /\ r.code = 404
                 /\ DOMAIN r.body = {"error"}
                 /\ DOMAIN r.body \cap ProjectionFields = {}
            ELSE r.code = 200 /\ DOMAIN r.body = ProjectionFields

\* a lookup that misses a persisted application by the random suffix alone
C14_Witness ==
    \E i \in Rows :
        LET ref == apps[i].reference_number
            near == <<ref[1], ref[2], IF ref[3] = RandMin THEN RandMax ELSE RandMin>>
        IN  /\ near \in ReferenceInputs
            /\ Unmatched(near)
            /\ ApiApplicationStatus(near).code = 404
            /\ ApiApplicationStatus(ref).code = 200

-----------------------------------------------------------------------------
(* Claims about the solar calculator *)

\* the call has returned a recommendation
Returned == quote.outcome = "returned"

LadderValues == {1, 2, 3, 5, 7, 10, 15, 20, 25, 30, 40, 50}

\* x > 0 of a float
Positive(x) == (x.kind = "num" /\ x.v > 0) \/ x.kind = "inf"

\* C15: for monthly_bill > 0 and roof_area > 0 the call returns, and the
\* recommended_capacity is at least 1 and is a value of the ladder or at most
\* floor(roof_area / 100).
C15_CapacityLadderOrRoof ==
    (quote.outcome # "pending" /\ Positive(quote.monthly_bill)
                               /\ Positive(quote.roof_area))
        => /\ Returned
           /\ quote.recommendation.recommended_capacity >= 1
           /\ \/ quote.recommendation.recommended_capacity \in LadderValues
              \/ /\ quote.roof_area.kind = "num"
                 /\ quote.recommendation.recommended_capacity
                        <= quote.roof_area.v \div 100

\* a positive request the roof limits to 4 kW, which is no value of the ladder
C15_Witness ==
    /\ Returned
    /\ Positive(quote.monthly_bill) /\ Positive(quote.roof_area)
    /\ quote.recommendation.recommended_capacity = 4
    /\ quote.recommendation.recommended_capacity \notin LadderValues

\* C16: whenever 100 x the capacity derived from the bill exceeds roof_area, the
\* returned recommended_capacity is max(1, floor(roof_area / 100)); a bill of
\* 100000 with a roof of 250 returns 2.
C16_RoofOverride ==
    /\ (Returned /\ quote.roof_area.kind = "num"
                 /\ 100 * LadderCapacity(quote.monthly_bill) > quote.roof_area.v)
           => quote.recommendation.recommended_capacity
                  = Max(1, quote.roof_area.v \div 100)
    /\ (quote.outcome # "pending" /\ quote.monthly_bill = Num(100000)
                                  /\ quote.roof_area = Num(250))
           => Returned /\ quote.recommendation.recommended_capacity = 2

\* the example of the claim: a bill that asks for 40 kW under a roof of 250
C16_Witness ==
    /\ Returned
    /\ quote.monthly_bill = Num(100000) /\ quote.roof_area = Num(250)
    /\ LadderCapacity(quote.monthly_bill) = 40
    /\ quote.recommendation.recommended_capacity = 2

C18_PaybackZeroIffNoSavings ==
    /\ quote.outcome = "raised" => quote.recommendation.raised # "ZeroDivisionError"
    /\ Returned =>
          /\ quote.recommendation.payback_period = 0
                 <=> quote.recommendation.annual_savings = 0
          /\ quote.recommendation.annual_savings # 0 =>
                 quote.recommendation.payback_period
                     = Round(quote.recommendation.estimated_cost * 10,
                             quote.recommendation.annual_savings)

\* a recommendation with savings and a payback of 2.0 years, for a zero bill
C18_Witness ==
    /\ Returned
    /\ quote.monthly_bill = Num(0)
    /\ quote.recommendation.annual_savings > 0
    /\ quote.recommendation.payback_period = 20

\* the JSON endpoint has answered a request with monthly_bill = 0 or roof_area = 0
ZeroRequest ==
    /\ quote.route = "api"
    /\ quote.outcome # "pending"
    /\ quote.monthly_bill = Num(0) \/ quote.roof_area = Num(0)

\* C19 as stated: with monthly_bill = 0 or roof_area = 0 the call does not raise and
\* returns recommended_capacity 0, monthly_savings 0 and annual_savings 0.
C19_ZeroInputDegenerate ==
    ZeroRequest =>
        /\ Returned
        /\ quote.recommendation.recommended_capacity = 0
        /\ quote.recommendation.monthly_savings = 0
        /\ quote.recommendation.annual_savings = 0

\* C19 as amended: with monthly_bill = 0 or roof_area = 0 the call raises only when
\* roof_area is minus infinity, and otherwise returns the outputs of a system of
\* 1 kW: recommended_capacity 1, monthly_savings 3300, annual_savings 39600.
C19_ZeroInputOneKilowatt ==
    ZeroRequest =>
        /\ quote.outcome = "raised" <=> quote.roof_area = NegInf
        /\ quote.outcome # "raised" =>
              /\ Returned
              /\ quote.recommendation.recommended_capacity = 1
              /\ quote.recommendation.monthly_savings = 3300
              /\ quote.recommendation.annual_savings = 39600

\* the JSON endpoint answers a request with a zero bill and a zero roof
C19_Witness ==
    /\ ZeroRequest /\ Returned
    /\ quote.monthly_bill = Num(0) /\ quote.roof_area = Num(0)
    /\ quote.recommendation.recommended_capacity = 1

\* L >= required_capacity, with required_capacity = monthly_bill / 3300
Covers(L, monthly_bill) ==
    (monthly_bill.kind = "num" /\ monthly_bill.v <= 3300 * L)
        \/ monthly_bill.kind = "-inf"

\* the smallest value of the ladder that covers the bill, 50 when none does
SmallestCovering(monthly_bill) ==
    IF \E L \in LadderValues : Covers(L, monthly_bill)
    THEN Min({L \in LadderValues : Covers(L, monthly_bill)})
    ELSE 50

C21_AreaOfReturnedCapacity ==
    Returned =>
        quote.recommendation.required_area
            = 100 * quote.recommendation.recommended_capacity

\* the roof holds the capacity the bill asks for
RoofHolds(L) ==
    (quote.roof_area.kind = "num" /\ 100 * L <= quote.roof_area.v)
        \/ quote.roof_area.kind \in {"inf", "nan"}

\* what the code returns instead: required_area is 100 x the capacity derived from
\* the bill, before the roof override; it is 100 x the returned capacity only when
\* the roof did not constrain the result
AreaOfLadderCapacity ==
    Returned =>
        LET L == SmallestCovering(quote.monthly_bill)
        IN  /\ quote.recommendation.required_area = 100 * L
            /\ RoofHolds(L) =>
                   quote.recommendation.required_area
                       = 100 * quote.recommendation.recommended_capacity

\* a roof of 250 under a bill that asks for 40 kW: 2 kW with a required_area of 4000
StaleRequiredArea ==
    /\ Returned
    /\ quote.monthly_bill = Num(100000) /\ quote.roof_area = Num(250)
    /\ quote.recommendation.recommended_capacity = 2
    /\ quote.recommendation.required_area = 4000

\* C22: the admin update enforces no transition graph: from every current status,
\* rejected and completed included, an update by an admin to any of the five status
\* values is accepted and stored, and leaves every other row as it was.
C22_NoTransitionGraph ==
    \A i \in Rows, s \in StatusValues :
        LET out == AdminApplicationDetailPost("admin", i, s, NONE)
        IN  /\ out.result = "updated"
            /\ out.apps[i].status = s
            /\ \A j \in Rows \ {i} : out.apps[j] = apps[j]

\* one row was moved to completed, another was moved back to pending by an update
\* posted after one that stored a different status
C22_Witness ==
    /\ Len(apps) = 2
    /\ apps[1].status = "completed" /\ Touched(1)
    /\ apps[2].status = "pending" /\ Touched(2) /\ ~hist[2].repeated
    /\ apps[2].updated_at > apps[2].submitted_at

\* the validation steps of a create, read from the form alone
MissingField(form, needs_type) ==
    \/ needs_type /\ form.application_type \in {NONE, ""}
    \/ form.system_capacity = Num(0)
    \/ form.property_address \in {NONE, ""}
OutOfRange(form) ==
    /\ form.system_capacity.kind = "num"
    /\ form.system_capacity.v < 1 \/ form.system_capacity.v > 50
NetBelowFive(form) ==
    /\ form.application_type = "net"
    /\ form.system_capacity.kind = "num" /\ form.system_capacity.v < 5
TenantLacksNoc(form) ==
    /\ form.ownership_type = "tenant"
    /\ "noc_document" \notin form.files
    /\ form.noc_message \in {"", " "}
MissingDocument(form, owner) ==
    \/ ~(BaseDocs \subseteq form.files)
    \/ owner /\ "land_ownership" \notin form.files
RejectedByMetering(form) ==
    \/ MissingField(form, TRUE) \/ OutOfRange(form) \/ NetBelowFive(form)
    \/ TenantLacksNoc(form) \/ MissingDocument(form, form.ownership_type = "owner")
RejectedBySolarSetup(form) ==
    MissingField(form, FALSE) \/ OutOfRange(form) \/ MissingDocument(form, FALSE)

\* C23: a create that a validation step rejects (missing required field, capacity
\* out of range, net below 5 kW, tenant without NOC, missing required document) adds
\* no application record and changes no field of any existing application.
C23_RejectedCreateChangesNothing ==
    \A form \in AllForms, failing \in StorageFailures :
        /\ RejectedByMetering(form) =>
               LET out == ApplyMeteringRequest("client", form, RandMin, failing)
               IN  out.result # "submitted" /\ out.apps = apps
        /\ RejectedBySolarSetup(form) =>
               LET out == ApplySolarSetupRequest("client", form, RandMin, failing)
               IN  out.result # "submitted" /\ out.apps = apps

\* a state with an application on record and the files of a refused create, in
\* which each of the five validation steps rejects some form
C23_Witness ==
    /\ Len(apps) >= 1
    /\ \E path \in uploads : \A i \in Rows : path \notin DocumentPaths(apps[i])
    /\ \A result \in {"fields_required", "capacity_range", "net_minimum",
                       "tenant_noc", "missing_documents"} :
           \E form \in AllForms :
               /\ RejectedByMetering(form)
               /\ ApplyMeteringPost("client", form, RandMin).result = result

ApplicationTypes == {"net", "gross", "simple_solar"}

\* C24: in every reachable state the application_type of every persisted
\* application is one of net, gross, simple_solar.
C24_TypeAmongThree == \A i \in Rows : apps[i].application_type \in ApplicationTypes

\* the prefix the reference of a type is to carry
PrefixOf(application_type) ==
    CASE application_type = "net" -> "NET"
      [] application_type = "gross" -> "GROSS"
      [] application_type = "simple_solar" -> "SOL"
      [] OTHER -> "APP"

\* C25: the reference code generated at creation has the prefix determined by the
\* stored application_type (NET for net, GROSS for gross, SOL for simple_solar, APP
\* for any other type), and its random suffix is an integer in 1000..9999, which
\* has four digits.
C25_ReferencePrefixAndSuffix ==
    \A i \in Rows :
        LET reference == apps[i].reference_number
        IN  /\ reference[1] = PrefixOf(apps[i].application_type)
            /\ reference[3] \in 1000 .. 9999
            /\ reference[3] \div 1000 \in 1 .. 9

\* an application of a type outside the three with the prefix APP and the largest
\* suffix, next to a net application with the smallest
C25_Witness ==
    \E i \in Rows, j \in Rows :
        /\ apps[i].application_type = "other"
        /\ apps[i].reference_number[1] = "APP" /\ apps[i].reference_number[3] = 9999
        /\ apps[j].application_type = "net"
        /\ apps[j].reference_number[1] = "NET" /\ apps[j].reference_number[3] = 1000

\* evidence of the right to install: the land ownership document, the NOC document,
\* or a NOC message
RightToInstall(row) ==
    \/ "land_ownership" \in DOMAIN row.documents
    \/ "noc_document" \in DOMAIN row.documents
    \/ row.noc_message \notin {NONE, ""}

\* rows of apply_solar_setup are simple_solar rows of an owner; every other row was
\* persisted through apply_metering
ThroughApplyMetering(row) ==
    row.application_type # "simple_solar" \/ row.ownership_type # "owner"

\* C26: every application persisted through apply_metering has evidence of the
\* right to install, for every ownership_type value the form can submit: its
\* documents contain land_ownership or noc_document, or its noc_message is
\* non-empty.
C26_RightToInstallOnRecord ==
    \A i \in Rows : ThroughApplyMetering(apps[i]) => RightToInstall(apps[i])

\* the payback of a 1 kW system on a roof that holds it, in tenths of a year
ReferencePayback ==
    get_solar_recommendation(Num(3300), Num(5000), "residential").payback_period

\* C27: for every input of get_solar_recommendation, zero and negative monthly_bill
\* or roof_area included, the returned recommended_capacity is at least 1, so
\* annual_savings is positive, the zero branch of the payback computation is not
\* taken, and the returned payback_period is the same value for all inputs.
C27_PositiveSavingsConstantPayback ==
    Returned =>
        /\ quote.recommendation.recommended_capacity >= 1
        /\ quote.recommendation.annual_savings > 0
        /\ quote.recommendation.payback_period # 0
        /\ quote.recommendation.payback_period = ReferencePayback
        /\ quote.recommendation.payback_period = 20

\* a negative bill and a negative roof answered with 1 kW, and with the payback of
\* a request for 50 kW
C27_Witness ==
    /\ Returned
    /\ quote.monthly_bill = Num(0 - 100) /\ quote.roof_area = Num(0 - 250)
    /\ quote.recommendation.recommended_capacity = 1
    /\ quote.recommendation.annual_savings = 39600
    /\ quote.recommendation.payback_period
           = get_solar_recommendation(Num(200000), Num(5000), "commercial").payback_period

-----------------------------------------------------------------------------
(* Claims about the cart *)

RECURSIVE QuantityAdded(_, _, _)
\* the sum of the quantities of the committed requests of a user for a product
QuantityAdded(log, user_id, product_id) ==
    IF log = <<>> THEN 0
    ELSE (IF log[1][1] = user_id /\ log[1][2] = product_id THEN log[1][3] ELSE 0)
             + QuantityAdded(Tail(log), user_id, product_id)

\* C29: after any interleaving of add_to_cart requests, once every request has
\* committed, the cart holds at most one row per (user, product) pair, and the
\* quantity of that row is the sum of all quantities added.
C29_OneRowSumOfQuantities ==
    (\A w \in Workers : adding[w] = NotAdding) =>
        \A user_id \in Users, product_id \in Products :
            /\ Cardinality(CartItems(user_id, product_id)) <= 1
            /\ \A i \in CartItems(user_id, product_id) :
                   cart[i].quantity = QuantityAdded(added, user_id, product_id)
            /\ QuantityAdded(added, user_id, product_id) > 0
                   => CartItems(user_id, product_id) # {}

\* the first half of C29 alone: at most one row per (user, product) pair
OneRowPerPair ==
    \A user_id \in Users, product_id \in Products :
        Cardinality(CartItems(user_id, product_id)) <= 1

\* the second half of C29 alone: the quantities of the rows of a pair add up to
\* the quantities added
NoLostQuantity ==
    (\A w \in Workers : adding[w] = NotAdding /\ OneRowPerPair) =>
        \A user_id \in Users, product_id \in Products :
            \A i \in CartItems(user_id, product_id) :
                cart[i].quantity = QuantityAdded(added, user_id, product_id)

====
